---- MODULE Spec2Model ----
(***************************************************************************)
(* Tamper-evident audit log of the ENT triage backend.                     *)
(*                                                                         *)
(* The model follows backend/app/core/audit.py (AuditService), the         *)
(* AuditLog table of backend/app/models/auditLog.py and the route handlers *)
(* of backend/app/auth/routes.py, backend/app/routes/user.py,              *)
(* backend/app/routes/triageCase.py and backend/app/routes/audit.py.       *)
(*                                                                         *)
(* Conventions                                                             *)
(*   - identifiers (UUIDs) are modelled by their canonical string form;    *)
(*     Python's None is Null for strings and NoHash for digests;           *)
(*   - SHA-256 is treated as collision-free: a digest is modelled by the   *)
(*     canonical serialisation it is computed from;                        *)
(*   - the wall clock (datetime.now) is a non-decreasing counter that the  *)
(*     environment advances: two reads may return the same instant.        *)
(***************************************************************************)
EXTENDS Integers, Sequences, FiniteSets, TLC

VARIABLES
    store,      \* rows of ent."AuditLog", in commit order
    clock,      \* the current wall-clock instant
    db,         \* business tables: users, cases, patient
    redis,      \* user ids that hold a stored refresh token
    lastReq,    \* the last request handled, and what it did to the audit store
    calls,      \* per worker: the create_log invocation in flight
    tamper      \* the out-of-band change made to a stored row, if any

vars == <<store, clock, db, redis, lastReq, calls, tamper>>

----------------------------------------------------------------------------
(* Bounds of the model *)

MaxStore == 3
MaxReq == 2
MaxClock == 1
NumWorkers == 3

----------------------------------------------------------------------------
(* Values *)

Null == "null"
NoHash == <<>>

UserIds == {"u1", "u2"}
CaseIds == {"c1", "c2"}
PatientId == "p1"
RequestIp == "10.0.0.1"

NoChange == <<>>

\* changeDetails built from fields_modified (audit.py:86-91)
ChangeDetails(fields_modified) ==
    IF fields_modified # <<>>
    THEN <<fields_modified, Len(fields_modified)>>
    ELSE NoChange

\* str.lower() on the role and status strings the requests carry
Lower(s) ==
    CASE s = "Admin" -> "admin"
      [] s = "Nurse" -> "nurse"
      [] s = "Reviewed" -> "reviewed"
      [] OTHER -> s

----------------------------------------------------------------------------
(* AuditService.compute_hash *)

\* as compute_hash with the status key left out of hash_input
ComputeHashNoStatus(log_id, actor_id, actor_type, resource_type, resource_id, action, status, timestamp, previous_hash) ==
    <<action, actor_id, actor_type, log_id, previous_hash,
      resource_id, resource_type, timestamp>>

\* as compute_hash with the previousHash key left out of hash_input
ComputeHashNoPrevious(log_id, actor_id, actor_type, resource_type, resource_id, action, status, timestamp, previous_hash) ==
    <<action, actor_id, actor_type, log_id,
      resource_id, resource_type, status, timestamp>>

\* as compute_hash with absent values written as empty strings (x or "")
ComputeHashNullAsEmpty(log_id, actor_id, actor_type, resource_type, resource_id, action, status, timestamp, previous_hash) ==
    <<action, IF actor_id = Null THEN "" ELSE actor_id,
      IF actor_type = Null THEN "" ELSE actor_type, log_id, previous_hash,
      IF resource_id = Null THEN "" ELSE resource_id,
      IF resource_type = Null THEN "" ELSE resource_type, status, timestamp>>

\* json.dumps(hash_input, sort_keys=True): the nine values in the order of
\* their sorted keys (action, actorID, actorType, logID, previousHash,
\* resourceID, resourceType, status, timestamp); sha256 of it is injective.
ComputeHash(log_id, actor_id, actor_type, resource_type, resource_id, action, status, timestamp, previous_hash) ==
    <<action, actor_id, actor_type, log_id, previous_hash,
      resource_id, resource_type, status, timestamp>>

\* the digest recomputed from a stored row's own columns
RowHash(e) ==
    ComputeHash(e.logID, e.actorID, e.actorType, e.resourceType, e.resourceID,
                e.action, e.status, e.timestamp, e.previousHash)

----------------------------------------------------------------------------
(* AuditService.get_previous_hash *)

ResourceRows(st, resource_type, resource_id) ==
    {i \in DOMAIN st : /\ st[i].resourceType = resource_type
                       /\ st[i].resourceID = resource_id}

\* as get_previous_hash without the early return on an absent resource
GetPreviousHashNoGuard(st, resource_type, resource_id) ==
    LET rows == ResourceRows(st, resource_type, resource_id)
        top  == {i \in rows : \A j \in rows : st[j].timestamp <= st[i].timestamp}
    IN  IF rows = {} THEN {NoHash} ELSE {st[i].hash : i \in top}

\* as get_previous_hash with the resourceID condition dropped from the query
GetPreviousHashAnyId(st, resource_type, resource_id) ==
    IF resource_type = Null \/ resource_id = Null
    THEN {NoHash}
    ELSE LET rows == {i \in DOMAIN st : st[i].resourceType = resource_type}
             top  == {i \in rows : \A j \in rows : st[j].timestamp <= st[i].timestamp}
         IN  IF rows = {} THEN {NoHash} ELSE {st[i].hash : i \in top}

\* The values the query may return: ORDER BY timestamp DESC LIMIT 1 yields
\* any one of the rows that share the greatest timestamp.
GetPreviousHash(st, resource_type, resource_id) ==
    IF resource_type = Null \/ resource_id = Null
    THEN {NoHash}
    ELSE LET rows == ResourceRows(st, resource_type, resource_id)
             top  == {i \in rows : \A j \in rows : st[j].timestamp <= st[i].timestamp}
         IN  IF rows = {} THEN {NoHash} ELSE {st[i].hash : i \in top}

----------------------------------------------------------------------------
(* AuditService.create_log *)

\* uuid4(): an identifier no stored row has; which one does not matter
UsedIds == {store[i].logID : i \in DOMAIN store}

FreshId(used) == CHOOSE n \in 1..(Cardinality(used) + 1) : n \notin used

\* keyword arguments of a create_log call
Kw(action, status, actor_id, actor_type, resource_type, resource_id, fields_modified) ==
    [action |-> action, status |-> status, actor_id |-> actor_id,
     actor_type |-> actor_type, resource_type |-> resource_type,
     resource_id |-> resource_id, fields_modified |-> fields_modified,
     ip |-> RequestIp, unexpected |-> {}]

\* the same call with a keyword create_log does not declare
KwWith(kw, name) == [kw EXCEPT !.unexpected = @ \cup {name}]

\* new_log as constructed at audit.py:97-107 (hash and previousHash not yet set)
NewLog(kw, log_id, timestamp) ==
    [logID |-> log_id, timestamp |-> timestamp,
     actorID |-> kw.actor_id, actorType |-> kw.actor_type,
     changeDetails |-> ChangeDetails(kw.fields_modified),
     resourceID |-> kw.resource_id, resourceType |-> kw.resource_type,
     action |-> kw.action, status |-> kw.status, ipAddress |-> kw.ip,
     hash |-> NoHash, previousHash |-> NoHash, locked |-> FALSE]

\* audit.py:110-124
Chained(log, previous_hash) ==
    [log EXCEPT !.previousHash = previous_hash,
                !.hash = ComputeHash(log.logID, log.actorID, log.actorType,
                                     log.resourceType, log.resourceID, log.action,
                                     log.status, log.timestamp, previous_hash)]

\* as the insert with db.merge in place of db.add: a row whose logID is
\* already stored overwrites that row
InsertOrReplace(st, row) ==
    IF \E i \in DOMAIN st : st[i].logID = row.logID
    THEN [i \in DOMAIN st |-> IF st[i].logID = row.logID THEN row ELSE st[i]]
    ELSE Append(st, row)

\* db.add(row); db.commit() of a new row: an INSERT, which the primary key
\* refuses (IntegrityError, nothing written) when the logID is already stored
Insert(st, row) ==
    IF \E i \in DOMAIN st : st[i].logID = row.logID
    THEN st
    ELSE Append(st, row)

\* as create_log with the insert wrapped in a try that logs and returns
CreateLogSwallowing(st, used, now, kw, commitOk) ==
    IF kw.unexpected # {}
    THEN {[store |-> st, raised |-> "TypeError"]}
    ELSE {IF commitOk
          THEN [store |-> Insert(st, Chained(NewLog(kw, FreshId(used), now), h)),
                raised |-> "none"]
          ELSE [store |-> st, raised |-> "none"]
            : h \in GetPreviousHash(st, kw.resource_type, kw.resource_id)}

\* The outcomes of one whole create_log call on store st at instant now:
\* the store afterwards and the exception raised to the caller ("none" when
\* it returns).  commitOk says whether db.commit() succeeds.
CreateLog(st, used, now, kw, commitOk) ==
    IF kw.unexpected # {}
    THEN {[store |-> st, raised |-> "TypeError"]}
    ELSE {IF commitOk
          THEN [store |-> Insert(st, Chained(NewLog(kw, FreshId(used), now), h)),
                raised |-> "none"]
          ELSE [store |-> st, raised |-> "OperationalError"]
            : h \in GetPreviousHash(st, kw.resource_type, kw.resource_id)}

----------------------------------------------------------------------------
(* State after construction: a seeded administrator, one open case *)

Roles == {"admin", "nurse"}

Live(u) == db.users[u] \in Roles
LiveUsers == {u \in UserIds : Live(u)}
CaseExists(c) == db.cases[c] \notin {"unborn", "deleted"}

IdleCall == [pc |-> "idle"]

NoReq == [n |-> 0, op |-> "none", code |-> 0, calls |-> 0, appended |-> 0, commitOk |-> TRUE]
NoTamper == [field |-> "none"]

Init ==
    /\ store = <<>>
    /\ clock = 0
    /\ db = [users |-> [u \in UserIds |-> IF u = "u1" THEN "admin" ELSE "unborn"],
             cases |-> [c \in CaseIds |-> IF c = "c1" THEN "pending" ELSE "unborn"],
             patient |-> "old"]
    /\ redis = {}
    /\ lastReq = NoReq
    /\ calls = [w \in 1..NumWorkers |-> IdleCall]
    /\ tamper = NoTamper

\* datetime.now(timezone.utc) is read from a clock the environment advances
Tick ==
    /\ clock < MaxClock
    /\ clock' = clock + 1
    /\ UNCHANGED <<store, db, redis, lastReq, calls, tamper>>

\* what a handled request did: create_log invocations made, rows appended
Req(op, code, ncalls, after, commitOk) ==
    [n |-> lastReq.n + 1, op |-> op, code |-> code, calls |-> ncalls,
     appended |-> Len(after) - Len(store), commitOk |-> commitOk]

----------------------------------------------------------------------------
(* backend/app/auth/routes.py *)

\* POST /auth/login
Login(email, pwOk, commitOk) ==
    /\ lastReq.n < MaxReq
    /\ LET user == IF Live(email) THEN email ELSE Null
       IN  IF user = Null \/ ~pwOk
           THEN \E r \in CreateLog(store, UsedIds, clock,
                        Kw("LOGIN_FAILURE", "FAIL", Null, Null, "USER", user, <<>>), commitOk) :
                    /\ store' = r.store
                    /\ lastReq' = Req("login", 401, 1, r.store, commitOk)
                    /\ UNCHANGED <<redis>>
           ELSE \E r \in CreateLog(store, UsedIds, clock,
                        Kw("LOGIN_SUCCESS", "SUCCESS", user, db.users[user], "USER", user, <<>>), commitOk) :
                    /\ redis' = redis \cup {user}
                    /\ store' = r.store
                    /\ lastReq' = Req("login", 200, 1, r.store, commitOk)
    /\ UNCHANGED <<clock, db, calls, tamper>>

\* refresh cookies: none, one that does not decode, or the token of a user
Cookies == {Null, "garbage"} \cup UserIds

\* POST /auth/refresh
Refresh(cookie) ==
    /\ lastReq.n < MaxReq
    /\ lastReq' = Req("refresh",
                      IF cookie = Null THEN 401
                      ELSE IF cookie = "garbage" THEN 500
                      ELSE IF cookie \notin redis THEN 401
                      ELSE 200,
                      0, store, TRUE)
    /\ UNCHANGED <<store, clock, db, redis, calls, tamper>>

\* uuid.UUID(x): x must be a string; a UUID object has no .replace
UuidCtorRaises(x) == x[1] = "UUID"

\* POST /auth/logout
Logout(email, cookie, commitOk) ==
    /\ lastReq.n < MaxReq
    /\ LET fromRow == IF Live(email) THEN <<"UUID", email>> ELSE <<"None", Null>>
           decoded == cookie \in UserIds
           user_id == IF decoded THEN <<"str", cookie>> ELSE fromRow
       IN  /\ redis' = IF decoded THEN redis \ {cookie} ELSE redis
           /\ IF user_id[1] # "None" /\ UuidCtorRaises(user_id)
              THEN /\ store' = store
                   /\ lastReq' = Req("logout", 200, 0, store, commitOk)
              ELSE \E r \in CreateLog(store, UsedIds, clock,
                        Kw("LOGOUT", "SUCCESS", user_id[2], Null, "USER", user_id[2], <<>>), commitOk) :
                    /\ store' = r.store
                    /\ lastReq' = Req("logout", 200, 1, r.store, commitOk)
    /\ UNCHANGED <<clock, db, calls, tamper>>

----------------------------------------------------------------------------
(* backend/app/routes/user.py *)

IsAdmin(cu) == Lower(db.users[cu]) = "admin"

\* GET /users/ : the audit call passes changeDetails=, which create_log
\* does not declare
ListUsers(cu, commitOk) ==
    /\ lastReq.n < MaxReq
    /\ IF ~IsAdmin(cu)
       THEN /\ store' = store
            /\ lastReq' = Req("list_users", 403, 0, store, commitOk)
       ELSE \E r \in CreateLog(store, UsedIds, clock,
                     KwWith(Kw("LIST_USERS", "SUCCESS", cu, db.users[cu], "USER", Null, <<>>), "changeDetails"),
                     commitOk) :
                 /\ store' = r.store
                 /\ lastReq' = Req("list_users", 200, 1, r.store, commitOk)
    /\ UNCHANGED <<clock, db, redis, calls, tamper>>

\* GET /users/{user_id}
GetUser(cu, user_id, commitOk) ==
    /\ lastReq.n < MaxReq
    /\ IF ~IsAdmin(cu)
       THEN /\ store' = store
            /\ lastReq' = Req("get_user", 403, 0, store, commitOk)
       ELSE IF ~Live(user_id)
       THEN /\ store' = store
            /\ lastReq' = Req("get_user", 404, 0, store, commitOk)
       ELSE \E r \in CreateLog(store, UsedIds, clock,
                     Kw("GET_USER", "SUCCESS", cu, db.users[cu], "USER", user_id, <<>>), commitOk) :
                 /\ store' = r.store
                 /\ lastReq' = Req("get_user", 200, 1, r.store, commitOk)
    /\ UNCHANGED <<clock, db, redis, calls, tamper>>

\* POST /users/ : the new row's userID is an identifier never used before
CreateUser(cu, new_id, role, commitOk) ==
    /\ lastReq.n < MaxReq
    /\ db.users[new_id] \in Roles \cup {"unborn"}
    /\ IF ~IsAdmin(cu)
       THEN /\ store' = store
            /\ db' = db
            /\ lastReq' = Req("create_user", 403, 0, store, commitOk)
       ELSE IF Live(new_id)
       THEN /\ store' = store
            /\ db' = db
            /\ lastReq' = Req("create_user", 409, 0, store, commitOk)
       ELSE \E r \in CreateLog(store, UsedIds, clock,
                     Kw("CREATE_USER", "SUCCESS", cu, db.users[cu], "USER", new_id,
                        <<"firstName", "lastName", "email", "role">>), commitOk) :
                 /\ db' = [db EXCEPT !.users[new_id] = Lower(role)]
                 /\ store' = r.store
                 /\ lastReq' = Req("create_user", 201, 1, r.store, commitOk)
    /\ UNCHANGED <<clock, redis, calls, tamper>>

\* the UserUpdate payloads: firstName and role, each optional
UserUpdates == [firstName : {Null, "Ann"}, role : {Null, "Nurse"}]

ModifiedUserFields(payload) ==
    (IF payload.firstName # Null THEN <<"firstName">> ELSE <<>>)
    \o (IF payload.role # Null THEN <<"role">> ELSE <<>>)

\* PUT /users/{user_id}
UpdateUser(cu, user_id, payload, commitOk) ==
    /\ lastReq.n < MaxReq
    /\ IF ~IsAdmin(cu)
       THEN /\ store' = store
            /\ db' = db
            /\ lastReq' = Req("update_user", 403, 0, store, commitOk)
       ELSE IF ~Live(user_id)
       THEN /\ store' = store
            /\ db' = db
            /\ lastReq' = Req("update_user", 404, 0, store, commitOk)
       ELSE LET modified_fields == ModifiedUserFields(payload)
                after == IF payload.role # Null
                         THEN [db EXCEPT !.users[user_id] = Lower(payload.role)]
                         ELSE db
            IN  /\ db' = after
                /\ IF modified_fields = <<>>
                   THEN /\ store' = store
                        /\ lastReq' = Req("update_user", 200, 0, store, commitOk)
                   ELSE \E r \in CreateLog(store, UsedIds, clock,
                                 Kw("UPDATE_USER", "SUCCESS", cu, db.users[cu], "USER", user_id,
                                    modified_fields), commitOk) :
                             /\ store' = r.store
                             /\ lastReq' = Req("update_user", 200, 1, r.store, commitOk)
    /\ UNCHANGED <<clock, redis, calls, tamper>>

\* DELETE /users/{user_id}
DeleteUser(cu, user_id, commitOk) ==
    /\ lastReq.n < MaxReq
    /\ IF ~IsAdmin(cu)
       THEN /\ store' = store
            /\ db' = db
            /\ lastReq' = Req("delete_user", 403, 0, store, commitOk)
       ELSE IF ~Live(user_id)
       THEN /\ store' = store
            /\ db' = db
            /\ lastReq' = Req("delete_user", 404, 0, store, commitOk)
       ELSE \E r \in CreateLog(store, UsedIds, clock,
                     Kw("DELETE_USER", "SUCCESS", cu, db.users[cu], "USER", user_id, <<>>), commitOk) :
                 /\ db' = [db EXCEPT !.users[user_id] = "deleted"]
                 /\ store' = r.store
                 /\ lastReq' = Req("delete_user", 204, 1, r.store, commitOk)
    /\ UNCHANGED <<clock, redis, calls, tamper>>

----------------------------------------------------------------------------
(* backend/app/routes/triageCase.py *)

\* the keys of TriageCaseCreate.model_dump()
CaseCreateFields == <<"patientID", "transcript">>

\* GET /triage-cases/ : the audit call passes changeDetails=
GetAllCases(cu, commitOk) ==
    /\ lastReq.n < MaxReq
    /\ \E r \in CreateLog(store, UsedIds, clock,
                 KwWith(Kw("LIST_CASES", "SUCCESS", cu, db.users[cu], "TRIAGE_CASE", Null, <<>>), "changeDetails"),
                 commitOk) :
             /\ store' = r.store
             /\ lastReq' = Req("get_all_cases", 200, 1, r.store, commitOk)
    /\ UNCHANGED <<clock, db, redis, calls, tamper>>

\* GET /triage-cases/status/{status} : the audit call passes changeDetails=
GetCasesByStatus(cu, commitOk) ==
    /\ lastReq.n < MaxReq
    /\ \E r \in CreateLog(store, UsedIds, clock,
                 KwWith(Kw("LIST_CASES", "SUCCESS", cu, db.users[cu], "TRIAGE_CASE", Null, <<>>), "changeDetails"),
                 commitOk) :
             /\ store' = r.store
             /\ lastReq' = Req("get_cases_by_status", 200, 1, r.store, commitOk)
    /\ UNCHANGED <<clock, db, redis, calls, tamper>>

\* GET /triage-cases/{id}
GetSpecificCase(cu, id, commitOk) ==
    /\ lastReq.n < MaxReq
    /\ IF ~CaseExists(id)
       THEN /\ store' = store
            /\ lastReq' = Req("get_specific_case", 404, 0, store, commitOk)
       ELSE \E r \in CreateLog(store, UsedIds, clock,
                     Kw("VIEW_CASE", "SUCCESS", cu, db.users[cu], "TRIAGE_CASE", id, <<>>), commitOk) :
                 /\ store' = r.store
                 /\ lastReq' = Req("get_specific_case", 200, 1, r.store, commitOk)
    /\ UNCHANGED <<clock, db, redis, calls, tamper>>

\* POST /triage-cases/ : the new row's caseID is an identifier never used before
CreateNewCase(cu, id, commitOk) ==
    /\ lastReq.n < MaxReq
    /\ db.cases[id] = "unborn"
    /\ \E r \in CreateLog(store, UsedIds, clock,
                 Kw("CREATE_CASE", "SUCCESS", cu, db.users[cu], "TRIAGE_CASE", id, CaseCreateFields),
                 commitOk) :
             /\ db' = [db EXCEPT !.cases[id] = "pending"]
             /\ store' = r.store
             /\ lastReq' = Req("create_new_case", 200, 1, r.store, commitOk)
    /\ UNCHANGED <<clock, redis, calls, tamper>>

\* the TriageCaseUpdate payloads: a case field (status), reviewReason and a
\* patient field (contactInfo), each optional (Null: the field is not set)
CaseUpdates == [status : {Null, "triaged", "Reviewed", "reviewed"}, reviewReason : {Null, "", "seen"}, contactInfo : {Null, "new"}]

\* as the test of triageCase.py:238 with the status compared as it was sent
ReviewThroughUpdateNoLower(update) ==
    \/ update.status \notin {Null, ""} /\ update.status = "reviewed"
    \/ update.reviewReason \notin {Null, ""}

\* triageCase.py:238: (status and status.lower() == "reviewed") or reviewReason,
\* an empty string being false
ReviewThroughUpdate(update) ==
    \/ update.status \notin {Null, ""} /\ Lower(update.status) = "reviewed"
    \/ update.reviewReason \notin {Null, ""}

\* the keys of case_updates (triageCase.py:252)
ModifiedCaseFields(update) ==
    (IF update.status # Null THEN <<"status">> ELSE <<>>)
    \o (IF update.reviewReason # Null THEN <<"reviewReason">> ELSE <<>>)

\* PUT /triage-cases/{id}
UpdateCase(cu, id, update, commitOk, poisoned) ==
    /\ lastReq.n < MaxReq
    /\ IF ReviewThroughUpdate(update)
       THEN /\ store' = store
            /\ db' = db
            /\ lastReq' = Req("update_case", 403, 0, store, commitOk)
       ELSE IF ~CaseExists(id)
       THEN /\ store' = store
            /\ db' = db
            /\ lastReq' = Req("update_case", 404, 0, store, commitOk)
       ELSE LET patient_updates == update.contactInfo # Null
                case_updates == ModifiedCaseFields(update) # <<>>
                \* the patient row is changed in the session; create_log's
                \* commit is what writes it
                s1 == IF patient_updates
                      THEN CreateLog(store, UsedIds, clock,
                               Kw("UPDATE_PATIENT", "SUCCESS", cu, db.users[cu], "PATIENT", PatientId,
                                  <<"contactInfo">>), commitOk)
                      ELSE {[store |-> store, raised |-> "none"]}
            IN  \E r1 \in s1 :
                  LET failed == r1.raised # "none"
                      db1 == IF patient_updates /\ ~failed
                             THEN [db EXCEPT !.patient = update.contactInfo]
                             ELSE db
                  IN  IF failed /\ poisoned
                      THEN \* the session's transaction was rolled back by the failed
                           \* flush: db.commit() at line 288 raises
                           /\ store' = r1.store
                           /\ db' = db
                           /\ lastReq' = Req("update_case", 500, 1, r1.store, commitOk)
                      ELSE IF case_updates
                      THEN \E r2 \in CreateLog(r1.store, {r1.store[i].logID : i \in DOMAIN r1.store}, clock,
                                    Kw("UPDATE_CASE", "SUCCESS", cu, db.users[cu], "TRIAGE_CASE", id,
                                       ModifiedCaseFields(update)), commitOk) :
                                /\ db' = IF update.status # Null
                                         THEN [db1 EXCEPT !.cases[id] = update.status]
                                         ELSE db1
                                /\ store' = r2.store
                                /\ lastReq' = Req("update_case", 200,
                                                  IF patient_updates THEN 2 ELSE 1, r2.store, commitOk)
                      ELSE /\ db' = db1
                           /\ store' = r1.store
                           /\ lastReq' = Req("update_case", 200,
                                             IF patient_updates THEN 1 ELSE 0, r1.store, commitOk)
    /\ UNCHANGED <<clock, redis, calls, tamper>>

\* DELETE /triage-cases/{id}
DeleteCase(cu, id, commitOk) ==
    /\ lastReq.n < MaxReq
    /\ IF ~CaseExists(id)
       THEN /\ store' = store
            /\ db' = db
            /\ lastReq' = Req("delete_case", 404, 0, store, commitOk)
       ELSE \E r \in CreateLog(store, UsedIds, clock,
                     Kw("DELETE_CASE", "SUCCESS", cu, db.users[cu], "TRIAGE_CASE", id, <<>>), commitOk) :
                 /\ db' = [db EXCEPT !.cases[id] = "deleted"]
                 /\ store' = r.store
                 /\ lastReq' = Req("delete_case", 200, 1, r.store, commitOk)
    /\ UNCHANGED <<clock, redis, calls, tamper>>

\* the TriageCaseReview payloads
CaseReviews == [reviewReason : {"", " ", "seen"}, scheduledDate : {Null, "tomorrow"}]

Strip(s) == IF s = " " THEN "" ELSE s

\* PATCH /triage-cases/{id}/review
ReviewCase(cu, id, update, commitOk) ==
    /\ lastReq.n < MaxReq
    /\ IF update.reviewReason = "" \/ Strip(update.reviewReason) = ""
       THEN /\ store' = store
            /\ db' = db
            /\ lastReq' = Req("review_case", 400, 0, store, commitOk)
       ELSE IF ~CaseExists(id)
       THEN /\ store' = store
            /\ db' = db
            /\ lastReq' = Req("review_case", 404, 0, store, commitOk)
       ELSE IF db.cases[id] = "reviewed"
       THEN /\ store' = store
            /\ db' = db
            /\ lastReq' = Req("review_case", 400, 0, store, commitOk)
       ELSE \E r \in CreateLog(store, UsedIds, clock,
                     Kw("REVIEW_CASE", "SUCCESS", cu, db.users[cu], "TRIAGE_CASE", id,
                        <<"status", "reviewReason", "reviewedBy", "reviewTimestamp">>
                        \o (IF update.scheduledDate # Null THEN <<"scheduledDate">> ELSE <<>>)),
                     commitOk) :
                 /\ db' = [db EXCEPT !.cases[id] = "reviewed"]
                 /\ store' = r.store
                 /\ lastReq' = Req("review_case", 200, 1, r.store, commitOk)
    /\ UNCHANGED <<clock, redis, calls, tamper>>

----------------------------------------------------------------------------
(* The privileged routes, one request at a time *)

Next ==
    \/ Tick
    \/ \E email \in UserIds, pwOk \in BOOLEAN, commitOk \in BOOLEAN : Login(email, pwOk, commitOk)
    \/ \E cookie \in Cookies : Refresh(cookie)
    \/ \E email \in UserIds, cookie \in Cookies, commitOk \in BOOLEAN : Logout(email, cookie, commitOk)
    \/ \E cu \in LiveUsers, commitOk \in BOOLEAN : ListUsers(cu, commitOk)
    \/ \E cu \in LiveUsers, user_id \in UserIds, commitOk \in BOOLEAN : GetUser(cu, user_id, commitOk)
    \/ \E cu \in LiveUsers, new_id \in UserIds, commitOk \in BOOLEAN : CreateUser(cu, new_id, "Nurse", commitOk)
    \/ \E cu \in LiveUsers, user_id \in UserIds, payload \in UserUpdates, commitOk \in BOOLEAN :
          UpdateUser(cu, user_id, payload, commitOk)
    \/ \E cu \in LiveUsers, user_id \in UserIds, commitOk \in BOOLEAN : DeleteUser(cu, user_id, commitOk)
    \/ \E cu \in LiveUsers, commitOk \in BOOLEAN : GetAllCases(cu, commitOk)
    \/ \E cu \in LiveUsers, commitOk \in BOOLEAN : GetCasesByStatus(cu, commitOk)
    \/ \E cu \in LiveUsers, id \in CaseIds, commitOk \in BOOLEAN : GetSpecificCase(cu, id, commitOk)
    \/ \E cu \in LiveUsers, id \in CaseIds, commitOk \in BOOLEAN : CreateNewCase(cu, id, commitOk)
    \/ \E cu \in LiveUsers, id \in CaseIds, update \in CaseUpdates, commitOk \in BOOLEAN, poisoned \in BOOLEAN :
          UpdateCase(cu, id, update, commitOk, poisoned)
    \/ \E cu \in LiveUsers, id \in CaseIds, commitOk \in BOOLEAN : DeleteCase(cu, id, commitOk)
    \/ \E cu \in LiveUsers, id \in CaseIds, update \in CaseReviews, commitOk \in BOOLEAN :
          ReviewCase(cu, id, update, commitOk)

Spec == Init /\ [][Next]_vars

\* the triage-case routes that write, on their own
NextCase ==
    \/ \E cu \in LiveUsers, id \in CaseIds, commitOk \in BOOLEAN : CreateNewCase(cu, id, commitOk)
    \/ \E cu \in LiveUsers, id \in CaseIds, update \in CaseUpdates, commitOk \in BOOLEAN, poisoned \in BOOLEAN :
          UpdateCase(cu, id, update, commitOk, poisoned)
    \/ \E cu \in LiveUsers, id \in CaseIds, commitOk \in BOOLEAN : DeleteCase(cu, id, commitOk)
    \/ \E cu \in LiveUsers, id \in CaseIds, update \in CaseReviews, commitOk \in BOOLEAN :
          ReviewCase(cu, id, update, commitOk)

SpecCase == Init /\ [][NextCase]_vars

----------------------------------------------------------------------------
(* Chain verification (spec.md 4.3): the rows of one resource in ascending  *)
(* timestamp, ties by ascending logID; per row the recomputed hash against  *)
(* the stored one, then the link to the row before.                         *)

Before(st, i, j) ==
    \/ st[i].timestamp < st[j].timestamp
    \/ st[i].timestamp = st[j].timestamp /\ st[i].logID < st[j].logID

\* the row right before row i in the verification order, 0 when i is first
Predecessor(st, rows, i) ==
    LET earlier == {j \in rows : Before(st, j, i)}
    IN  IF earlier = {} THEN 0
        ELSE CHOOSE j \in earlier : \A k \in earlier \ {j} : Before(st, k, j)

HashOk(st, i) == st[i].hash = RowHash(st[i])

LinkOk(st, rows, i) ==
    LET p == Predecessor(st, rows, i)
    IN  st[i].previousHash = (IF p = 0 THEN NoHash ELSE st[p].hash)

Valid == <<"Valid">>
Broken(at, reason) == <<"Broken", at, reason>>

VerifyChain(st, resource_type, resource_id) ==
    LET rows == ResourceRows(st, resource_type, resource_id)
        bad  == {i \in rows : ~HashOk(st, i) \/ ~LinkOk(st, rows, i)}
    IN  IF bad = {} THEN Valid
        ELSE LET first == CHOOSE i \in bad : \A k \in bad \ {i} : Before(st, i, k)
             IN  Broken(st[first].logID,
                        IF ~HashOk(st, first) THEN "HashMismatch" ELSE "LinkMismatch")

----------------------------------------------------------------------------
(* AuditService.create_log called directly, one call after the other *)

\* the resources of the calls: two user rows and the collection-level
\* events, which carry no resourceID
LogResources == {<<"USER", "u1">>, <<"USER", "u2">>, <<"USER", Null>>}

\* the events of the calls: (action, status, actor_id, actor_type, fields_modified)
LogEvents == {<<"LOGIN_FAILURE", "FAIL", Null, Null, <<>> >>, <<"UPDATE_USER", "SUCCESS", "u1", "admin", <<"role">> >>}

LogKw(ev, res) == Kw(ev[1], ev[2], ev[3], ev[4], res[1], res[2], ev[5])

CallCreateLog(ev, res, commitOk) ==
    /\ Len(store) < MaxStore
    /\ tamper = NoTamper
    /\ \E r \in CreateLog(store, UsedIds, clock, LogKw(ev, res), commitOk) :
           store' = r.store
    /\ UNCHANGED <<clock, db, redis, lastReq, calls, tamper>>

TickLog ==
    /\ tamper = NoTamper
    /\ Tick

NextLog ==
    \/ TickLog
    \/ \E ev \in LogEvents, res \in LogResources, commitOk \in BOOLEAN : CallCreateLog(ev, res, commitOk)

SpecLog == Init /\ [][NextLog]_vars

----------------------------------------------------------------------------
(* A stored row changed behind the API (directly in the table), once, on a  *)
(* resource whose chain verifies                                            *)

ForgedHash == <<"forged">>

\* the columns of ent."AuditLog" and, per column, the values a change may write
Columns == {"logID", "timestamp", "actorID", "actorType", "changeDetails", "resourceID", "resourceType", "action", "status", "ipAddress", "hash", "previousHash", "locked"}

ColumnValues(st, col) ==
    CASE col = "logID" -> {FreshId({st[i].logID : i \in DOMAIN st})}
      [] col = "timestamp" -> {0, MaxClock + 1}
      [] col = "actorID" -> {Null, "u2"}
      [] col = "actorType" -> {Null, "nurse"}
      [] col = "changeDetails" -> {NoChange, <<<<"email">>, 1>>}
      [] col = "resourceID" -> {Null, "u2"}
      [] col = "resourceType" -> {Null, "TRIAGE_CASE"}
      [] col = "action" -> {"LOGIN_SUCCESS", "UPDATE_USER"}
      [] col = "status" -> {"SUCCESS", "FAIL"}
      [] col = "ipAddress" -> {Null, RequestIp}
      [] col = "hash" -> {NoHash, ForgedHash} \cup {st[i].hash : i \in DOMAIN st}
      [] col = "previousHash" -> {NoHash, ForgedHash} \cup {st[i].hash : i \in DOMAIN st}
      [] col = "locked" -> BOOLEAN

Tamper(i, col, v) ==
    /\ tamper = NoTamper
    /\ i \in DOMAIN store
    /\ store[i].resourceType # Null /\ store[i].resourceID # Null
    /\ VerifyChain(store, store[i].resourceType, store[i].resourceID) = Valid
    /\ v \in ColumnValues(store, col)
    /\ v # store[i][col]
    /\ LET rows == ResourceRows(store, store[i].resourceType, store[i].resourceID)
       IN  tamper' = [field |-> col, row |-> i,
                      resourceType |-> store[i].resourceType,
                      resourceID |-> store[i].resourceID,
                      interior |-> /\ \E j \in rows : Before(store, j, i)
                                   /\ \E j \in rows : Before(store, i, j)]
    /\ store' = [store EXCEPT ![i] = [@ EXCEPT ![col] = v]]
    /\ UNCHANGED <<clock, db, redis, lastReq, calls>>

\* the resources whose chains are built and then changed
ChainResources == {res \in LogResources : res[1] # Null /\ res[2] # Null}

NextTamper ==
    \/ TickLog
    \/ \E ev \in LogEvents, res \in ChainResources, commitOk \in BOOLEAN : CallCreateLog(ev, res, commitOk)
    \/ \E i \in 1..MaxStore, col \in Columns : \E v \in ColumnValues(store, col) : Tamper(i, col, v)

SpecTamper == Init /\ [][NextTamper]_vars

----------------------------------------------------------------------------
(* AuditService.create_log run by concurrent request workers, each on its   *)
(* own database session: a worker sees the rows committed so far            *)

Workers == 1..NumWorkers

ConcResources == {<<"USER", "u1">>, <<"USER", "u2">>}

ConcEvent == <<"UPDATE_USER", "SUCCESS", "u1", "admin", <<"role">> >>

\* uuid4() in a worker: the workers' identifiers never coincide
WorkerLogId(w) == w

\* audit.py:86-107: the timestamp is read and the row constructed
Construct(w, res) ==
    /\ calls[w].pc = "idle"
    /\ calls' = [calls EXCEPT ![w] =
                    [pc |-> "read", log |-> NewLog(LogKw(ConcEvent, res), WorkerLogId(w), clock)]]
    /\ UNCHANGED <<store, clock, db, redis, lastReq, tamper>>

\* audit.py:110-124: the previous hash is read, the row's hash computed
ReadPrevious(w) ==
    /\ calls[w].pc = "read"
    /\ \E h \in GetPreviousHash(store, calls[w].log.resourceType, calls[w].log.resourceID) :
           calls' = [calls EXCEPT ![w] = [pc |-> "commit", log |-> Chained(calls[w].log, h)]]
    /\ UNCHANGED <<store, clock, db, redis, lastReq, tamper>>

\* audit.py:127-135: the row is inserted and the call returns, or the commit
\* raises
Commit(w, commitOk) ==
    /\ calls[w].pc = "commit"
    /\ IF commitOk
       THEN /\ store' = Insert(store, calls[w].log)
            /\ calls' = [calls EXCEPT ![w].pc = "done"]
       ELSE /\ store' = store
            /\ calls' = [calls EXCEPT ![w].pc = "raised"]
    /\ UNCHANGED <<clock, db, redis, lastReq, tamper>>

NextConc ==
    \/ Tick
    \/ \E w \in Workers, res \in ConcResources : Construct(w, res)
    \/ \E w \in Workers : ReadPrevious(w)
    \/ \E w \in Workers, commitOk \in BOOLEAN : Commit(w, commitOk)

SpecConc == Init /\ [][NextConc]_vars

----------------------------------------------------------------------------
(* backend/app/routes/audit.py *)

\* the AuditLog bodies of the POST requests: logID 0 and timestamp -1 stand
\* for fields the body leaves out (default_factory fills them in)
PostedLogs(st) ==
    [logID : {0} \cup {st[i].logID : i \in DOMAIN st},
     timestamp : {-1, 0},
     actorID : {Null}, actorType : {Null}, changeDetails : {NoChange},
     resourceID : {"u1"}, resourceType : {"USER"},
     action : {"LOGIN_SUCCESS"}, status : {"SUCCESS"}, ipAddress : {Null},
     hash : {NoHash, ForgedHash},
     previousHash : {NoHash},
     locked : BOOLEAN]

\* POST /audit-logs/ : the body is inserted as it is
CreateAuditLog(body) ==
    /\ lastReq.n < MaxReq
    /\ LET log == [body EXCEPT !.logID = IF @ = 0 THEN FreshId(UsedIds) ELSE @,
                               !.timestamp = IF @ = -1 THEN clock ELSE @]
           after == Insert(store, log)
       IN  /\ store' = after
           /\ lastReq' = Req("create_audit_log", IF after = store THEN 500 ELSE 201, 0, after, TRUE)
    /\ UNCHANGED <<clock, db, redis, calls, tamper>>

\* the limit query parameter of GET /audit-logs/
Limits == {0, 1, 2}

\* The response of get_audit_logs for a caller of the given role: db.exec of
\* the one-column count statement yields a ScalarResult, which has one() and
\* first() but no scalar_one(), so line 32 raises AttributeError before the
\* rows are selected.
GetAuditLogsResponse(st, role, limit) ==
    IF role # "admin"
    THEN [code |-> 403, logs |-> <<>>, count |-> 0]
    ELSE [code |-> 500, logs |-> <<>>, count |-> 0]

\* GET /audit-logs/ : writes nothing
GetAuditLogs(cu, limit) ==
    /\ lastReq.n < MaxReq
    /\ lastReq' = Req("get_audit_logs", GetAuditLogsResponse(store, db.users[cu], limit).code, 0, store, TRUE)
    /\ UNCHANGED <<store, clock, db, redis, calls, tamper>>

NextApi ==
    \/ Next
    \/ \E body \in PostedLogs(store) : CreateAuditLog(body)
    \/ \E cu \in LiveUsers, limit \in Limits : GetAuditLogs(cu, limit)

SpecApi == Init /\ [][NextApi]_vars

----------------------------------------------------------------------------
(* AuditLogStore.lock and the store's update and delete of a row (spec.md   *)
(* 4.2 and 7): a locked row refuses both with LockedEntryError.  The last   *)
(* such operation and its outcome are kept in tamper.                       *)

\* the number of store operations made so far
OpsDone == IF tamper = NoTamper THEN 0 ELSE tamper.k

StoreOp(op, log_id, raised) == [field |-> op, logID |-> log_id, raised |-> raised, k |-> OpsDone + 1]

\* the columns and values of the update attempts
UpdateValues(col) ==
    CASE col = "status" -> {"FAIL"}
      [] col = "locked" -> {FALSE}

Lock(i) ==
    /\ OpsDone < MaxReq
    /\ i \in DOMAIN store
    /\ store' = [store EXCEPT ![i].locked = TRUE]
    /\ tamper' = StoreOp("lock", store[i].logID, "none")
    /\ UNCHANGED <<clock, db, redis, lastReq, calls>>

StoreUpdate(i, col, v) ==
    /\ OpsDone < MaxReq
    /\ i \in DOMAIN store
    /\ IF store[i].locked
       THEN /\ store' = store
            /\ tamper' = StoreOp("update", store[i].logID, "LockedEntryError")
       ELSE /\ store' = [store EXCEPT ![i] = [@ EXCEPT ![col] = v]]
            /\ tamper' = StoreOp("update", store[i].logID, "none")
    /\ UNCHANGED <<clock, db, redis, lastReq, calls>>

StoreDelete(i) ==
    /\ OpsDone < MaxReq
    /\ i \in DOMAIN store
    /\ IF store[i].locked
       THEN /\ store' = store
            /\ tamper' = StoreOp("delete", store[i].logID, "LockedEntryError")
       ELSE /\ store' = SubSeq(store, 1, i - 1) \o SubSeq(store, i + 1, Len(store))
            /\ tamper' = StoreOp("delete", store[i].logID, "none")
    /\ UNCHANGED <<clock, db, redis, lastReq, calls>>

\* rows are written by create_log and by POST /audit-logs/, then locked,
\* updated and deleted in the store
LockedPosts(st) == {b \in PostedLogs(st) : b.timestamp = -1 /\ b.hash = NoHash /\ b.previousHash = NoHash}

NextLock ==
    \/ \E res \in ChainResources : res[2] = "u1" /\ CallCreateLog(ConcEvent, res, TRUE)
    \/ \E body \in LockedPosts(store) : Len(store) < MaxStore /\ CreateAuditLog(body)
    \/ \E i \in 1..MaxStore : Lock(i)
    \/ \E i \in 1..MaxStore, col \in {"status", "locked"} : \E v \in UpdateValues(col) : StoreUpdate(i, col, v)
    \/ \E i \in 1..MaxStore : StoreDelete(i)

SpecLock == Init /\ [][NextLock]_vars

----------------------------------------------------------------------------
(* AuditService.compute_hash called on its own, twice: on some arguments,   *)
(* then on the same arguments with one of them changed                      *)

\* the arguments of the calls; Null is None, "" and "None" are strings
HashInputs ==
    [log_id : {1, 2}, actor_id : {Null, "", "u1"}, actor_type : {Null, "admin"},
     resource_type : {Null, "USER"}, resource_id : {Null, "None", "u1"},
     action : {"LOGIN_SUCCESS", "LOGIN_FAILURE"}, status : {"SUCCESS", "FAIL"},
     timestamp : {0, 1}, previous_hash : {NoHash, ForgedHash}]

HashArguments == {"log_id", "actor_id", "actor_type", "resource_type", "resource_id", "action", "status", "timestamp", "previous_hash"}

HashOf(a) ==
    ComputeHash(a.log_id, a.actor_id, a.actor_type, a.resource_type, a.resource_id,
                a.action, a.status, a.timestamp, a.previous_hash)

Hashed(a) == [pc |-> "hashed", args |-> a, digest |-> HashOf(a)]

HashFirst(a) ==
    /\ calls[1].pc = "idle"
    /\ calls' = [calls EXCEPT ![1] = Hashed(a)]
    /\ UNCHANGED <<store, clock, db, redis, lastReq, tamper>>

HashSecond(b) ==
    /\ calls[1].pc = "hashed"
    /\ calls[2].pc = "idle"
    /\ Cardinality({f \in HashArguments : b[f] # calls[1].args[f]}) = 1
    /\ calls' = [calls EXCEPT ![2] = Hashed(b)]
    /\ UNCHANGED <<store, clock, db, redis, lastReq, tamper>>

NextHash ==
    \/ \E a \in HashInputs : HashFirst(a)
    \/ \E b \in HashInputs : HashSecond(b)

SpecHash == Init /\ [][NextHash]_vars

----------------------------------------------------------------------------
(* C1: sequential create_log calls on one resource form a chain *)

\* C1. In a store written by create_log calls that run one after the other,
\* the first row of a resource has previousHash = null and every later row
\* has the hash of the row appended right before it for that resource.
C1_SequentialChain ==
    \A res \in LogResources :
        (res[1] # Null /\ res[2] # Null) =>
            LET rows == ResourceRows(store, res[1], res[2])
            IN  \A i \in rows :
                    LET earlier == {j \in rows : j < i}
                    IN  store[i].previousHash =
                            (IF earlier = {} THEN NoHash
                             ELSE store[CHOOSE j \in earlier : \A k \in earlier : k <= j].hash)

----------------------------------------------------------------------------
(* C2: concurrent create_log calls on one resource *)

AllReturned == \A w \in Workers : calls[w].pc = "done"

NoSiblings(st) ==
    \A i, j \in DOMAIN st :
        (/\ i # j
         /\ st[i].resourceType = st[j].resourceType
         /\ st[i].resourceID = st[j].resourceID) => st[i].previousHash # st[j].previousHash

\* C2. Once all the concurrent create_log calls have returned, no two rows of
\* a resource share a previousHash and verify_chain is Valid for every resource.
C2_ConcurrentChain ==
    AllReturned =>
        /\ NoSiblings(store)
        /\ \A res \in ConcResources : VerifyChain(store, res[1], res[2]) = Valid

----------------------------------------------------------------------------
(* C3, C4: a stored row changed behind the API *)

TamperedResult == VerifyChain(store, tamper.resourceType, tamper.resourceID)

HashMismatchAtTampered == TamperedResult = Broken(store[tamper.row].logID, "HashMismatch")

\* C3 as stated. After a change of any one column of an interior row of a
\* valid chain, verify_chain reports Broken at that row with HashMismatch.
C3_AnyColumnHashMismatch ==
    (tamper.field # "none" /\ tamper.interior) => HashMismatchAtTampered

\* the columns whose change verify_chain reports at the changed row itself
DetectedColumns == {"actorID", "actorType", "action", "status", "previousHash", "hash"}

\* C3 amended. After a change of one of actorID, actorType, action, status,
\* previousHash or hash of an interior row of a valid chain, verify_chain
\* reports Broken at that row with HashMismatch.
C3_HashedColumnHashMismatch ==
    (tamper.field \in DetectedColumns /\ tamper.interior) => HashMismatchAtTampered

C3_Witness ==
    /\ tamper.field = "status"
    /\ tamper.interior
    /\ Len(store) = 3

\* C4 as stated. After a change of only the previousHash of a row of a valid
\* chain, verify_chain reports Broken at that row with LinkMismatch.
C4_PreviousHashLinkMismatch ==
    tamper.field = "previousHash" =>
        TamperedResult = Broken(store[tamper.row].logID, "LinkMismatch")

\* C4 amended. After a change of only the previousHash of a row of a valid
\* chain, verify_chain reports Broken at that row with HashMismatch: the
\* previousHash is part of the hashed input and the hash is checked first.
C4_PreviousHashHashMismatch ==
    tamper.field = "previousHash" =>
        TamperedResult = <<"Broken", store[tamper.row].logID, "HashMismatch">>

C4_Witness ==
    /\ tamper.field = "previousHash"
    /\ \E j \in DOMAIN store :
          /\ j # tamper.row
          /\ store[j].resourceType = tamper.resourceType
          /\ store[j].resourceID = tamper.resourceID
          /\ store[tamper.row].previousHash = store[j].hash

----------------------------------------------------------------------------
(* C5, C6: the stored rows under the whole API *)

\* C5. Every stored row's hash is compute_hash of the row's own logID,
\* actorID, actorType, resourceType, resourceID, action, status, timestamp
\* and previousHash.
C5_StoredHashRecomputes ==
    \A i \in DOMAIN store : store[i].hash = RowHash(store[i])

\* C6. No step of the API changes or removes a stored row: every row stays
\* where it is, with all its columns, and the store only grows at its end.
C6_AppendOnly ==
    [][/\ Len(store') >= Len(store)
       /\ \A i \in DOMAIN store : store'[i] = store[i]]_vars

\* a POST that repeats a stored logID has been refused, and rows written by
\* create_log and by the POST route stand side by side
C6_Witness ==
    /\ lastReq.op = "create_audit_log"
    /\ lastReq.code = 500
    /\ Len(store) >= 1

----------------------------------------------------------------------------
(* C7: chains of different resources under interleaved calls *)

SameResource(a, b) ==
    /\ a.resourceType = b.resourceType
    /\ a.resourceID = b.resourceID

\* C7. Every row with a previousHash has the hash of a row of its own
\* resource there, and no row of another resource has that hash.
C7_PredecessorOfSameResource ==
    \A i \in DOMAIN store :
        store[i].previousHash # NoHash =>
            /\ \E j \in DOMAIN store :
                  store[j].hash = store[i].previousHash /\ SameResource(store[j], store[i])
            /\ \A j \in DOMAIN store :
                  store[j].hash = store[i].previousHash => SameResource(store[j], store[i])

\* two rows of one resource are linked across a row of another resource
\* committed between them
C7_Witness ==
    \E i, k, j \in DOMAIN store :
        /\ i < k /\ k < j
        /\ SameResource(store[i], store[j])
        /\ ~SameResource(store[i], store[k])
        /\ store[j].previousHash = store[i].hash

----------------------------------------------------------------------------
(* C8: events without a resource *)

\* C8. get_previous_hash returns null whenever the resource type or the
\* resource id is absent, whatever the store holds; a row without resourceID
\* has no previousHash and its hash is no resource-specific row's previousHash.
C8_NoResourceNoLink ==
    /\ \A res \in {<<"USER", Null>>, <<"TRIAGE_CASE", Null>>, <<Null, "u1">>, <<Null, Null>>} :
          GetPreviousHash(store, res[1], res[2]) = {NoHash}
    /\ \A i \in DOMAIN store :
          store[i].resourceID = Null =>
              /\ store[i].previousHash = NoHash
              /\ \A j \in DOMAIN store :
                    (store[j].resourceType # Null /\ store[j].resourceID # Null)
                        => store[j].previousHash # store[i].hash

\* two collection-level rows of one resource type, and a linked row of a
\* resource of that type
C8_Witness ==
    \E i, j, k \in DOMAIN store :
        /\ i < j
        /\ store[i].resourceID = Null /\ store[i].resourceType = "USER"
        /\ store[j].resourceID = Null /\ store[j].resourceType = "USER"
        /\ store[k].resourceID = "u1" /\ store[k].resourceType = "USER"

----------------------------------------------------------------------------
(* C9, C10: what the routes leave in the store *)

\* C9. Every create_log invocation a route makes while the store accepts
\* the commit appends exactly one row.
C9_OneRowPerInvocation ==
    (lastReq.calls >= 1 /\ lastReq.commitOk) => lastReq.appended = lastReq.calls

AuthOps == {"login", "logout", "refresh"}
MutationOps == {"create_user", "update_user", "delete_user", "create_new_case", "update_case", "delete_case", "review_case"}

\* C10. A request that completes successfully (2xx) and is a login, logout
\* or token refresh, or a create, update, delete or review that changes the
\* business tables, leaves at least one new row in the store, provided the
\* store accepts the commit.
C10_SuccessIsAudited ==
    [][(/\ lastReq'.n = lastReq.n + 1
        /\ lastReq'.code \in {200, 201, 204}
        /\ lastReq'.commitOk
        /\ \/ lastReq'.op \in AuthOps
           \/ lastReq'.op \in MutationOps /\ db' # db)
       => Len(store') > Len(store)]_vars

----------------------------------------------------------------------------
(* C11: the business change of a request whose audit append fails *)

\* the change an accepted PUT /triage-cases/{id} asks for
CaseUpdateEffect(d, id, update) ==
    LET d1 == IF update.contactInfo # Null
              THEN [d EXCEPT !.patient = update.contactInfo]
              ELSE d
    IN  IF update.status # Null THEN [d1 EXCEPT !.cases[id] = update.status] ELSE d1

\* C11. In every privileged route the business change is committed before
\* the audit append is attempted: when the append fails, the change the
\* request asks for is in the business tables all the same, also for an
\* update_case that carries patient fields.
C11_AuditFailureKeepsPrimary ==
    [][/\ \A cu \in LiveUsers, new_id \in UserIds :
             (CreateUser(cu, new_id, "Nurse", FALSE) /\ IsAdmin(cu) /\ ~Live(new_id))
                 => db' = [db EXCEPT !.users[new_id] = "nurse"]
       /\ \A cu \in LiveUsers, user_id \in UserIds, payload \in UserUpdates :
             (UpdateUser(cu, user_id, payload, FALSE) /\ IsAdmin(cu) /\ Live(user_id) /\ payload.role # Null)
                 => db' = [db EXCEPT !.users[user_id] = Lower(payload.role)]
       /\ \A cu \in LiveUsers, user_id \in UserIds :
             (DeleteUser(cu, user_id, FALSE) /\ IsAdmin(cu) /\ Live(user_id))
                 => db' = [db EXCEPT !.users[user_id] = "deleted"]
       /\ \A cu \in LiveUsers, id \in CaseIds :
             CreateNewCase(cu, id, FALSE) => db' = [db EXCEPT !.cases[id] = "pending"]
       /\ \A cu \in LiveUsers, id \in CaseIds :
             (DeleteCase(cu, id, FALSE) /\ CaseExists(id))
                 => db' = [db EXCEPT !.cases[id] = "deleted"]
       /\ \A cu \in LiveUsers, id \in CaseIds, update \in CaseReviews :
             (/\ ReviewCase(cu, id, update, FALSE)
              /\ Strip(update.reviewReason) # "" /\ CaseExists(id) /\ db.cases[id] # "reviewed")
                 => db' = [db EXCEPT !.cases[id] = "reviewed"]
       /\ \A cu \in LiveUsers, id \in CaseIds, update \in CaseUpdates, poisoned \in BOOLEAN :
             (/\ UpdateCase(cu, id, update, FALSE, poisoned)
              /\ ~ReviewThroughUpdate(update) /\ CaseExists(id))
                 => db' = CaseUpdateEffect(db, id, update)]_vars

----------------------------------------------------------------------------
(* C12: a create_log call whose store write fails *)

\* C12. When the store write of a create_log call fails, the call raises to
\* its caller and the stored rows are the same as before the call; a request
\* whose appends failed has added no row.
C12_FailedWriteRaisesAndLeavesStore ==
    /\ \A ev \in LogEvents, res \in LogResources :
          \A r \in CreateLog(store, UsedIds, clock, LogKw(ev, res), FALSE) :
              r.raised # "none" /\ r.store = store
    /\ (lastReq.calls >= 1 /\ ~lastReq.commitOk) => lastReq.appended = 0

\* a request's append has failed against a store that holds rows
C12_Witness ==
    /\ lastReq.calls >= 1
    /\ ~lastReq.commitOk
    /\ Len(store) >= 1

----------------------------------------------------------------------------
(* C13: locked rows *)

----------------------------------------------------------------------------
(* C14, C15: timestamps along a chain, and rows with equal timestamps *)

\* C14. A row appended by create_log whose previousHash is the hash of a row
\* p of the same resource has a timestamp not before p's, also when calls
\* for that resource interleave between reading the clock and the commit.
C14_TimestampsNonDecreasing ==
    \A i, j \in DOMAIN store :
        (SameResource(store[i], store[j]) /\ store[i].previousHash = store[j].hash)
            => store[j].timestamp <= store[i].timestamp

\* C15. Whatever rows of a resource share the greatest timestamp,
\* get_previous_hash has one possible result for a given store, and it is
\* the hash of the resource's last row in the order chain verification uses.
C15_DeterministicTieBreak ==
    \A res \in ChainResources :
        LET rows == ResourceRows(store, res[1], res[2])
            found == GetPreviousHash(store, res[1], res[2])
        IN  rows # {} =>
                /\ Cardinality(found) = 1
                /\ LET last == CHOOSE i \in rows : \A k \in rows \ {i} : Before(store, k, i)
                   IN  found = {store[last].hash}

----------------------------------------------------------------------------
(* C16: audit rows per request *)

\* the routes whose create_log call is well formed and reached on success
\* (the list routes and logout are the subject of C9 and C10)
AuditingOps == {"login", "get_user", "create_user", "update_user", "delete_user", "get_specific_case", "create_new_case", "update_case", "delete_case", "review_case"}

\* C16. Every privileged request that completes, whatever its outcome (200,
\* 400, 401, 403, 404, ...), has added exactly one row to the store,
\* provided the store accepts the commit: not none and not two.
C16_ExactlyOneEntry ==
    (lastReq.op \in AuditingOps /\ lastReq.commitOk) => lastReq.appended = 1

----------------------------------------------------------------------------
(* C17: the audit list *)

\* logs holds the n most recent rows of st, most recent first
MostRecentFirst(st, logs, n) ==
    /\ Len(logs) = n
    /\ \A k \in DOMAIN logs : \E i \in DOMAIN st : st[i] = logs[k]
    /\ \A k, l \in DOMAIN logs : k < l =>
          /\ logs[k].logID # logs[l].logID
          /\ logs[k].timestamp >= logs[l].timestamp
    /\ \A i \in DOMAIN st :
          (\A k \in DOMAIN logs : logs[k].logID # st[i].logID)
              => \A k \in DOMAIN logs : st[i].timestamp <= logs[k].timestamp

\* C17. GET /audit-logs/ with limit L >= 0 by an admin answers 200 with at
\* most L rows, the L most recent ones (all of them when fewer are stored)
\* in descending timestamp order, and with count = the number of stored rows.
C17_ListMostRecent ==
    [][\A cu \in LiveUsers, limit \in Limits :
          (GetAuditLogs(cu, limit) /\ db.users[cu] = "admin") =>
              LET r == GetAuditLogsResponse(store, db.users[cu], limit)
              IN  /\ lastReq'.code = 200
                  /\ r.code = 200
                  /\ MostRecentFirst(store, r.logs, IF limit < Len(store) THEN limit ELSE Len(store))
                  /\ r.count = Len(store)]_vars

----------------------------------------------------------------------------
(* C18: compute_hash on inputs that differ in one argument *)

\* C18. Two compute_hash calls whose arguments differ in exactly one of
\* logID, actorID, actorType, resourceType, resourceID, action, status,
\* timestamp and previousHash return different digests; None differs from
\* every string.
C18_OneFieldChangesHash ==
    (calls[1].pc = "hashed" /\ calls[2].pc = "hashed") =>
        (Cardinality({f \in HashArguments : calls[1].args[f] # calls[2].args[f]}) = 1
            => calls[1].digest # calls[2].digest)

\* the two calls differ in the actor only, None in one and "" in the other
C18_Witness ==
    /\ calls[1].pc = "hashed" /\ calls[2].pc = "hashed"
    /\ calls[1].args.actor_id = Null
    /\ calls[2].args.actor_id = ""
    /\ calls[1].digest # calls[2].digest

----------------------------------------------------------------------------
(* C19: the status "reviewed" *)

\* the generic updates that ask for a review: status "reviewed" in any
\* letter case, or a reviewReason that is not empty
AsksForReview(update) ==
    \/ update.status # Null /\ Lower(update.status) = "reviewed"
    \/ update.reviewReason \notin {Null, ""}

\* C19. An existing case moves to status "reviewed" only in a successful
\* review_case; update_case answers 403 to every request with status
\* "reviewed" (case-insensitively) or a non-empty reviewReason, and
\* review_case answers 400 on a case already reviewed: both leave the
\* business tables and the audit store as they were.
C19_ReviewedOnlyThroughReview ==
    [][/\ \A c \in CaseIds :
             (CaseExists(c) /\ db.cases[c] # "reviewed" /\ db'.cases[c] = "reviewed")
                 => (lastReq'.op = "review_case" /\ lastReq'.code = 200)
       /\ \A cu \in LiveUsers, id \in CaseIds, update \in CaseUpdates, commitOk \in BOOLEAN, poisoned \in BOOLEAN :
             (UpdateCase(cu, id, update, commitOk, poisoned) /\ AsksForReview(update))
                 => (lastReq'.code = 403 /\ db' = db /\ store' = store)
       /\ \A cu \in LiveUsers, id \in CaseIds, update \in CaseReviews, commitOk \in BOOLEAN :
             (ReviewCase(cu, id, update, commitOk) /\ db.cases[id] = "reviewed")
                 => (lastReq'.code = 400 /\ db' = db /\ store' = store)]_vars

\* a case was reviewed, and the next request on the reviewed case, a second
\* review or a generic update, was refused without a second audit row
C19_Witness ==
    /\ db.cases["c1"] = "reviewed"
    /\ lastReq.n = 2
    /\ lastReq.op \in {"review_case", "update_case"}
    /\ lastReq.code \in {400, 403}
    /\ Len(store) = 1
    /\ store[1].action = "REVIEW_CASE"

====
